---- MODULE Spec2Model ----
(***************************************************************************)
(* Model of pyDE1's ScaleProcessor (src/src/pyDE1/scale/processor.py).     *)
(*                                                                         *)
(* The processor runs on one asyncio event loop: tasks are cooperative and *)
(* give up control only at an await that suspends.  The variable `running` *)
(* names the task that is executing between two suspension points; every   *)
(* other task, callback and external completion waits for running = None.  *)
(* A state with running = None is a state another task can observe.        *)
(***************************************************************************)
EXTENDS Integers, Sequences, FiniteSets, TLC

\* ---------------------------------------------------------------- bounds
MaxScales == 2      \* Scale objects ever constructed
MaxCalls == 2       \* API calls made by the caller task
MaxTicks == 2       \* hardware events (weight samples and tares)
StreamCalls == 1    \* set_scale calls made while samples stream in
StreamTicks == 12   \* hardware events of a streaming run
MaxQueue == 2       \* coroutines waiting on the history lock
NumAddrs == 2       \* distinct BLE addresses
MaxFaults == 1      \* external calls that fail (raise, or find nothing)

\* ------------------------------------------------------------- constants
history_max == 10

NoScale == 0        \* Python None, as a Scale
NoAddr == 0         \* Python None, as an address / ble_device_id
NoneId == 0         \* Python None, as a subscription id
ExcId == 0 - 1      \* an exception object returned by gather(return_exceptions=True)

None == "None"
Tasks == {"init", "api"}
Sources == {"w", "t"}   \* event_weight_update, event_tare_seen
Addrs == 1..NumAddrs

VARIABLES
    scale,                  \* self._scale
    scale_weight_update_id, \* self._scale_weight_update_id
    scale_tare_seen_id,     \* self._scale_tare_seen_id
    history_time,           \* self._history_time
    history_weight,         \* self._history_weight
    est,                    \* the eight estimator target attributes
    lock_holder,            \* self._history_lock: who holds it
    lock_queue,             \* self._history_lock: its FIFO of waiters
    objs,                   \* the Scale objects constructed so far
    running,                \* the task executing now, or None
    task,                   \* the two lifecycle tasks' frames
    now,                    \* hardware events so far
    invoked,                \* weight callbacks invoked so far
    published,              \* WeightAndFlowUpdate events published so far
    last_event,             \* the last WeightAndFlowUpdate handed to publish
    tare_time,              \* scale time of the last tare whose reset ran
    settled,                \* the current binding was made by an unoverlapped,
                            \* completed set_scale
    faults,                 \* external calls that have failed so far
    budget,                 \* how many calls, hardware events and faults a run may hold
    appended                \* the samples appended since the history was last cleared

vars == <<scale, scale_weight_update_id, scale_tare_seen_id, history_time,
          history_weight, est, lock_holder, lock_queue, objs,
          running, task, now, invoked, published, last_event, tare_time,
          settled, faults, budget, appended>>

procVars == <<scale, scale_weight_update_id, scale_tare_seen_id>>
histVars == <<history_time, history_weight, est, appended>>
lockVars == <<lock_holder, lock_queue>>
streamVars == <<now, invoked, published, last_event, tare_time, budget>>

\* ------------------------------------------------------------ the scales
NameOf(a) == 10 + a
TypeOf(a) == 20 + a

NewScale(a) ==
    [address |-> a, name |-> NameOf(a), type |-> TypeOf(a),
     connectivity |-> "NOT_CONNECTED", disconnected |-> FALSE,
     decommissioned |-> FALSE, w |-> {}, t |-> {}]

Subs(o, src) == IF src = "w" THEN o.w ELSE o.t

WithSubs(o, src, s) == IF src = "w" THEN [o EXCEPT !.w = s] ELSE [o EXCEPT !.t = s]

\* ------------------------------------------------- null-safe accessors
scale_address == IF scale # NoScale THEN objs[scale].address ELSE NoAddr

scale_name == IF scale # NoScale THEN objs[scale].name ELSE NoAddr

scale_type == IF scale # NoScale THEN objs[scale].type ELSE NoAddr

\* scale_connectivity without its NOT_CONNECTED default
RawConnectivity ==
    IF scale # NoScale THEN objs[scale].connectivity ELSE None

scale_connectivity ==
    IF scale # NoScale THEN objs[scale].connectivity ELSE "NOT_CONNECTED"

\* ------------------------------------------------------------ the frames
Idle ==
    [pc |-> "idle", op |-> "none", arg |-> 0, target |-> 0, ret |-> "top",
     old |-> 0, obj |-> 0, uw |-> 0, ut |-> 0, rw |-> 0, rt |-> 0,
     pend |-> {}, failed |-> FALSE, exc |-> "none", fx |-> 0, n |-> 0,
     quiet |-> TRUE, from |-> 0, fromSettled |-> FALSE,
     prevOp |-> "none", prevArg |-> 0, prevExc |-> "none", prevQuiet |-> TRUE,
     prevFrom |-> 0, prevFromSettled |-> FALSE, prevFx |-> 0,
     again |-> FALSE, prevAgain |-> FALSE, doit |-> FALSE,
     prevDoit |-> FALSE]

\* The frame of a task whose top-level call has ended (returned, or raised e).
Ended(t, r, e) ==
    [Idle EXCEPT !.pc = IF t = "init" THEN "done" ELSE "idle",
                 !.n = r.n + 1,
                 !.prevOp = r.op, !.prevArg = r.arg, !.prevExc = e,
                 !.prevQuiet = r.quiet, !.prevFrom = r.from,
                 !.prevFromSettled = r.fromSettled, !.prevFx = r.fx,
                 !.prevAgain = r.again, !.prevDoit = r.doit]

Other(t) == IF t = "init" THEN "api" ELSE "init"

InCall(r) == r.pc \notin {"idle", "done", "pending"}

\* asyncio runs ready tasks first-in first-out: the set_scale task that
\* construction created takes its first step before anything that becomes
\* ready later does.
Started == task["init"].pc # "pending"

\* ------------------------------------------------------ the history lock
Free == [kind |-> "free", task |-> None, seq |-> 0, st |-> 0, at |-> 0, w |-> 0,
         run |-> FALSE]

ResetEntry(t) == [Free EXCEPT !.kind = "reset", !.task = t]

\* No mutual exclusion: an acquire that never waits
AlwaysAcquire == TRUE

\* asyncio.Lock.acquire() returns at once only when the lock is unlocked and
\* nobody waits; otherwise the caller joins the queue and suspends.
CanAcquireNow == lock_holder.kind = "free" /\ lock_queue = << >>

\* An unfair lock: the waiter that came last is served first
ReleaseToLast ==
    IF lock_queue = << >>
    THEN lock_holder' = Free /\ lock_queue' = lock_queue
    ELSE /\ lock_holder' = lock_queue[Len(lock_queue)]
         /\ lock_queue' = SubSeq(lock_queue, 1, Len(lock_queue) - 1)

\* asyncio.Lock.release(): the first waiter is woken and will own the lock.
NextHolder(q) == Head(q)

RestQueue(q) == Tail(q)

Release ==
    IF lock_queue = << >>
    THEN lock_holder' = Free /\ lock_queue' = lock_queue
    ELSE /\ lock_holder' = NextHolder(lock_queue)
         /\ lock_queue' = RestQueue(lock_queue)

\* A _reset() that leaves the time list as it is
KeptTime == history_time

\* _reset(): the body under the lock
ClearedTime == << >>

ClearedWeight == << >>

ResetBody ==
    /\ history_time' = ClearedTime
    /\ history_weight' = ClearedWeight
    /\ appended' = << >>
    /\ UNCHANGED est

\* uuid.uuid4(): an id nobody holds.  Ids are only ever compared, so the
\* least number held nowhere stands for a fresh uuid.
IdsHeld ==
    UNION {objs[i].w \cup objs[i].t : i \in DOMAIN objs}
      \cup {scale_weight_update_id, scale_tare_seen_id}
      \cup UNION {{task[t].uw, task[t].ut, task[t].rw, task[t].rt} : t \in Tasks}

next_id == CHOOSE i \in 1..(4 * MaxScales + 8) :
              i \notin IdsHeld /\ \A j \in 1..(i - 1) : j \in IdsHeld

\* An external call may fail only while the fault budget lasts
Outcome(ok) == ok \/ faults < budget.faults

Fault(ok) == faults' = IF ok THEN faults ELSE faults + 1

\* ----------------------------------------------------------- set_scale
\* Control goes back to whoever called set_scale: the task's top level (the
\* call is over), or change_scale_to_id, whose try/finally takes an exception
\* to its finally block.
Return(t, r, e) ==
    IF r.ret = "top"
    THEN task' = [task EXCEPT ![t] = Ended(t, r, e)] /\ running' = None
    ELSE /\ running' = t
         /\ task' = [task EXCEPT ![t] =
                [r EXCEPT !.pc = IF e # "none" THEN "finally" ELSE r.ret,
                          !.exc = e]]

\* `if self._scale == scale: return`
SameScale(cur, new) == cur = new

\* A set_scale that never unsubscribes the scale it leaves
NeverUnsubscribe(cur) == FALSE

\* `if self._scale is not None:` unsubscribe the existing scale
MustUnsubscribe(cur) == cur # NoScale

\* set_scale, from its entry to its first await
set_scale(t) ==
    /\ UNCHANGED faults
    /\ running = t
    /\ task[t].pc = "set_scale"
    /\ LET r == task[t] IN
       IF SameScale(scale, r.target)
       THEN Return(t, r, "none")
       ELSE IF MustUnsubscribe(scale)
       THEN /\ running' = None
            /\ task' = [task EXCEPT ![t] =
                   [r EXCEPT !.pc = "unsubscribing", !.pend = Sources,
                             !.obj = scale, !.uw = scale_weight_update_id,
                             !.ut = scale_tare_seen_id, !.failed = FALSE,
                             !.fx = @ + 2, !.from = scale,
                             !.fromSettled = settled]]
       ELSE /\ running' = t
            /\ task' = [task EXCEPT ![t] =
                   [r EXCEPT !.pc = "bind", !.from = scale,
                             !.fromSettled = settled]]
    /\ UNCHANGED <<procVars, histVars, lockVars, objs, streamVars,
                   settled>>

\* SubscribedEvent.unsubscribe(id): the subscription with that id is gone
Unsubscribed(o, src, id) == WithSubs(o, src, Subs(o, src) \ {id})

\* gather() starts its awaitables in argument order; they are taken to end
\* in that order too.
NextOf(pend) == IF "w" \in pend THEN "w" ELSE "t"

\* One of the two gathered unsubscribe() calls ends.  gather() without
\* return_exceptions hands an exception to set_scale, which has no handler.
unsubscribe_done(t, src, ok) ==
    /\ Outcome(ok)
    /\ Fault(ok)
    /\ running = None
    /\ Started
    /\ task[t].pc = "unsubscribing"
    /\ src = NextOf(task[t].pend)
    /\ LET r == task[t]
           id == IF src = "w" THEN r.uw ELSE r.ut
           left == r.pend \ {src}
           bad == r.failed \/ ~ok
           r2 == [r EXCEPT !.pend = left, !.failed = bad]
       IN /\ objs' = IF ok THEN [objs EXCEPT ![r.obj] = Unsubscribed(@, src, id)]
                          ELSE objs
          /\ IF left # {}
             THEN task' = [task EXCEPT ![t] = r2] /\ running' = None
             ELSE IF bad
             THEN Return(t, r2, "UnsubscribeError")
             ELSE /\ running' = t
                  /\ task' = [task EXCEPT ![t] = [r2 EXCEPT !.pc = "bind"]]
    /\ UNCHANGED <<procVars, histVars, lockVars, streamVars, settled>>

\* `self._scale = scale`, then subscribe to the new scale if there is one
set_scale_bind(t) ==
    /\ UNCHANGED faults
    /\ running = t
    /\ task[t].pc = "bind"
    /\ scale' = task[t].target
    /\ settled' = FALSE
    /\ LET r == task[t] IN
       IF r.target # NoScale
       THEN /\ running' = None
            /\ task' = [task EXCEPT ![t] =
                   [r EXCEPT !.pc = "subscribing", !.pend = Sources,
                             !.obj = r.target, !.rw = NoneId, !.rt = NoneId,
                             !.fx = @ + 2]]
       ELSE /\ running' = t
            /\ task' = [task EXCEPT ![t] = [r EXCEPT !.pc = "reset"]]
    /\ UNCHANGED <<scale_weight_update_id, scale_tare_seen_id, histVars,
                   lockVars, objs, streamVars>>

\* SubscribedEvent.subscribe(callback): a fresh id, now active
Subscribed(o, src, id) == WithSubs(o, src, Subs(o, src) \cup {id})

\* One of the two gathered subscribe() calls ends; with return_exceptions=True
\* a failure is returned in place of the id.  When both have ended the pair
\* is assigned to the two id attributes.
subscribe_done(t, src, ok) ==
    /\ Outcome(ok)
    /\ Fault(ok)
    /\ running = None
    /\ Started
    /\ task[t].pc = "subscribing"
    /\ src = NextOf(task[t].pend)
    /\ LET r == task[t]
           got == IF ok THEN next_id ELSE ExcId
           left == r.pend \ {src}
           r2 == IF src = "w" THEN [r EXCEPT !.pend = left, !.rw = got]
                              ELSE [r EXCEPT !.pend = left, !.rt = got]
       IN /\ objs' = IF ok THEN [objs EXCEPT ![r.obj] = Subscribed(@, src, next_id)]
                          ELSE objs
          /\ IF left # {}
             THEN /\ task' = [task EXCEPT ![t] = r2]
                  /\ running' = None
                  /\ UNCHANGED <<scale_weight_update_id, scale_tare_seen_id>>
             ELSE /\ task' = [task EXCEPT ![t] = [r2 EXCEPT !.pc = "reset"]]
                  /\ running' = t
                  /\ scale_weight_update_id' = r2.rw
                  /\ scale_tare_seen_id' = r2.rt
    /\ UNCHANGED <<scale, histVars, lockVars, streamVars, settled>>

\* `await self._reset()` at the end of set_scale: with the lock free the
\* history is cleared and set_scale returns without suspending; otherwise
\* the task waits its turn.
set_scale_reset(t) ==
    /\ UNCHANGED faults
    /\ running = t
    /\ task[t].pc = "reset"
    /\ IF CanAcquireNow
       THEN /\ ResetBody
            /\ UNCHANGED lockVars
            /\ settled' = task[t].quiet
            /\ Return(t, task[t], "none")
       ELSE /\ lock_queue' = Append(lock_queue, ResetEntry(t))
            /\ task' = [task EXCEPT ![t].pc = "lock_wait"]
            /\ running' = None
            /\ UNCHANGED <<histVars, lock_holder, settled>>
    /\ UNCHANGED <<procVars, objs, streamVars>>

\* The waiting _reset() is given the lock: clear, release, return.
set_scale_reset_granted(t) ==
    /\ UNCHANGED faults
    /\ running = None
    /\ task[t].pc = "lock_wait"
    /\ lock_holder = ResetEntry(t)
    /\ ResetBody
    /\ Release
    /\ settled' = task[t].quiet
    /\ Return(t, task[t], "none")
    /\ UNCHANGED <<procVars, objs, streamVars>>

\* -------------------------------------------------- change_scale_to_id
\* change_scale_to_id without its "already using" guard
NeverUsing(id) == FALSE

\* A guard that forgets the request for None while nothing is bound
OnlyAddress(id) == id # NoAddr /\ scale_address = id

\* `if self.scale_address == ble_device_id:` already using it, no action
AlreadyUsing(id) == scale_address = id

\* From the entry to the first await: the no-op guard, `old_scale`, and for
\* an id the lookup in DiscoveredDevices (which may know the device or not).
change_scale_to_id(t, cached) ==
    /\ UNCHANGED faults
    /\ running = t
    /\ task[t].pc = "change_scale_to_id"
    /\ LET r == task[t] IN
       IF AlreadyUsing(r.arg)
       THEN /\ cached
            /\ task' = [task EXCEPT ![t] = Ended(t, r, "none")]
            /\ running' = None
       ELSE IF r.arg = NoAddr
       THEN /\ cached
            /\ running' = t
            /\ task' = [task EXCEPT ![t] =
                   [r EXCEPT !.pc = "set_scale", !.old = scale,
                             !.target = NoScale, !.ret = "finally"]]
       ELSE IF cached
       THEN /\ running' = t
            /\ task' = [task EXCEPT ![t] =
                   [r EXCEPT !.pc = "disconnect", !.old = scale, !.fx = @ + 1]]
       ELSE /\ running' = None
            /\ task' = [task EXCEPT ![t] =
                   [r EXCEPT !.pc = "scanning", !.old = scale, !.fx = @ + 2]]
    /\ UNCHANGED <<procVars, histVars, lockVars, objs, streamVars,
                   settled>>

\* BleakScannerWrapped.find_device_by_address ends: a device, or None and
\* DE1NoAddressError
scan_done(t, found) ==
    /\ Outcome(found)
    /\ Fault(found)
    /\ running = None
    /\ Started
    /\ task[t].pc = "scanning"
    /\ running' = t
    /\ task' = [task EXCEPT ![t] =
           IF found THEN [@ EXCEPT !.pc = "disconnect"]
           ELSE [@ EXCEPT !.pc = "finally", !.exc = "DE1NoAddressError"]]
    /\ UNCHANGED <<procVars, histVars, lockVars, objs, streamVars,
                   settled>>

\* `await self.scale.disconnect()` inside try/except AttributeError: with no
\* scale bound the AttributeError is swallowed and nothing is awaited.
change_scale_disconnect(t) ==
    /\ UNCHANGED faults
    /\ running = t
    /\ task[t].pc = "disconnect"
    /\ IF scale = NoScale
       THEN /\ running' = t
            /\ task' = [task EXCEPT ![t].pc = "factory"]
       ELSE /\ running' = None
            /\ task' = [task EXCEPT ![t].pc = "disconnecting",
                                    ![t].obj = scale, ![t].fx = @ + 1]
    /\ UNCHANGED <<procVars, histVars, lockVars, objs, streamVars,
                   settled>>

\* Scale.disconnect() has run
Disconnected(o) == [o EXCEPT !.connectivity = "NOT_CONNECTED", !.disconnected = TRUE]

\* Scale.connect() has run
Connected(o) == [o EXCEPT !.connectivity = "CONNECTED"]

\* Scale.decommission()
Decommissioned(o) == [o EXCEPT !.decommissioned = TRUE]

disconnect_done(t, ok) ==
    /\ Outcome(ok)
    /\ Fault(ok)
    /\ running = None
    /\ Started
    /\ task[t].pc = "disconnecting"
    /\ running' = t
    /\ objs' = IF ok THEN [objs EXCEPT ![task[t].obj] = Disconnected(@)] ELSE objs
    /\ task' = [task EXCEPT ![t] =
           IF ok THEN [@ EXCEPT !.pc = "factory"]
           ELSE [@ EXCEPT !.pc = "finally", !.exc = "DisconnectError"]]
    /\ UNCHANGED <<procVars, histVars, lockVars, streamVars, settled>>

\* `new_scale = scale_factory(ble_device)`: a new Scale with the device's
\* address, or None and DE1APIValueError; then `await self.set_scale(new_scale)`
change_scale_factory(t, made) ==
    /\ Outcome(made)
    /\ Fault(made)
    /\ running = t
    /\ task[t].pc = "factory"
    /\ running' = t
    /\ IF made
       THEN /\ objs' = Append(objs, NewScale(task[t].arg))
            /\ task' = [task EXCEPT ![t].pc = "set_scale",
                                    ![t].target = Len(objs) + 1,
                                    ![t].ret = "connect"]
       ELSE /\ objs' = objs
            /\ task' = [task EXCEPT ![t].pc = "finally",
                                    ![t].exc = "DE1APIValueError"]
    /\ UNCHANGED <<procVars, histVars, lockVars, streamVars, settled>>

\* `await self.scale.connect()`: self.scale is read again here
change_scale_connect(t) ==
    /\ UNCHANGED faults
    /\ running = t
    /\ task[t].pc = "connect"
    /\ IF scale = NoScale
       THEN /\ running' = t
            /\ task' = [task EXCEPT ![t].pc = "finally",
                                    ![t].exc = "AttributeError"]
       ELSE /\ running' = None
            /\ task' = [task EXCEPT ![t].pc = "connecting",
                                    ![t].obj = scale, ![t].fx = @ + 1]
    /\ UNCHANGED <<procVars, histVars, lockVars, objs, streamVars,
                   settled>>

connect_done(t, ok) ==
    /\ Outcome(ok)
    /\ Fault(ok)
    /\ running = None
    /\ Started
    /\ task[t].pc = "connecting"
    /\ running' = t
    /\ objs' = IF ok THEN [objs EXCEPT ![task[t].obj] = Connected(@)] ELSE objs
    /\ task' = [task EXCEPT ![t] =
           IF ok THEN [@ EXCEPT !.pc = "finally"]
           ELSE [@ EXCEPT !.pc = "finally", !.exc = "ConnectError"]]
    /\ UNCHANGED <<procVars, histVars, lockVars, streamVars, settled>>

\* `if old_scale is not None and self.scale != old_scale:`
MustRetire(old, cur) == old # NoScale /\ cur # old

\* The finally block: retire the old scale, or end the call at once.
change_scale_finally(t) ==
    /\ UNCHANGED faults
    /\ running = t
    /\ task[t].pc = "finally"
    /\ IF MustRetire(task[t].old, scale)
       THEN /\ running' = None
            /\ task' = [task EXCEPT ![t].pc = "retiring", ![t].fx = @ + 1]
       ELSE /\ running' = None
            /\ task' = [task EXCEPT ![t] = Ended(t, task[t], task[t].exc)]
    /\ UNCHANGED <<procVars, histVars, lockVars, objs, streamVars,
                   settled>>

\* `await old_scale.disconnect()` ends; `old_scale.decommission()` follows
\* only if it did not raise.  The call is then over.
retire_done(t, ok) ==
    /\ Outcome(ok)
    /\ Fault(ok)
    /\ running = None
    /\ Started
    /\ task[t].pc = "retiring"
    /\ running' = None
    /\ objs' = IF ok THEN [objs EXCEPT ![task[t].old] = Decommissioned(Disconnected(@))]
                    ELSE objs
    /\ task' = [task EXCEPT ![t] =
           IF ok THEN Ended(t, [task[t] EXCEPT !.fx = @ + 1], task[t].exc)
           ELSE Ended(t, task[t], "DisconnectError")]
    /\ UNCHANGED <<procVars, histVars, lockVars, streamVars, settled>>

\* --------------------------------------------------- samples and estimators
ZeroEst ==
    [current_weight |-> 0, current_weight_time |-> 0,
     average_flow |-> 0, average_flow_time |-> 0,
     median_weight |-> 0, median_weight_time |-> 0,
     median_flow |-> 0, median_flow_time |-> 0]

NoEvent == [arrival_time |-> 0, scale_time |-> 0, seq |-> 0, est |-> ZeroEst,
            oldest |-> 0, tare |-> 0]


\* The k-th hardware event of a run: when the scale took it, when it arrived,
\* and what the scale read.
ScaleTime(k) == 2 * k

ArrivalTime(k) == 2 * k + 1

Reading(k) == ((3 * k) % 5) + 1

WeightEntry(k, n) ==
    [Free EXCEPT !.kind = "weight", !.seq = n, !.st = ScaleTime(k),
                 !.at = ArrivalTime(k), !.w = Reading(k)]

TareEntry(k) == [Free EXCEPT !.kind = "tare", !.st = ScaleTime(k)]

\* A history that is never trimmed
NoPop(h) == h

\* A trim that drops the newest samples instead of the oldest
PopNewest(h) == IF Len(h) > history_max THEN SubSeq(h, 1, history_max) ELSE h

\* `while len(history) > self._history_max: history.pop(0)`
RECURSIVE PopWhileOver(_)
PopWhileOver(h) == IF Len(h) > history_max THEN PopWhileOver(Tail(h)) ELSE h

LastN(h, n) == IF Len(h) <= n THEN h ELSE SubSeq(h, Len(h) - n + 1, Len(h))

\* The lower median of a non-empty sequence of numbers
Median(h) ==
    LET m == (Len(h) + 1) \div 2
        Below(x) == Cardinality({i \in DOMAIN h : h[i] < x})
        UpTo(x) == Cardinality({i \in DOMAIN h : h[i] <= x})
    IN CHOOSE x \in {h[i] : i \in DOMAIN h} : Below(x) < m /\ m <= UpTo(x)

\* Mass flow between the first and the last sample of a window (no flow
\* over a window that spans no time)
Flow(ts, ws) ==
    IF ts[Len(ts)] = ts[1] THEN 0
    ELSE (ws[Len(ws)] - ws[1]) \div (ts[Len(ts)] - ts[1])

\* CurrentWeight(self, '_current_weight')
CurrentWeight(e, ts, ws) ==
    IF Len(ws) = 0 \/ Len(ts) = 0 THEN e
    ELSE [e EXCEPT !.current_weight = ws[Len(ws)],
                   !.current_weight_time = ts[Len(ts)]]

\* AverageFlow(self, '_average_flow', 10)
AverageFlow(e, ts, ws) ==
    IF Len(ws) < 2 \/ Len(ts) < 2 THEN e
    ELSE [e EXCEPT !.average_flow = Flow(LastN(ts, 10), LastN(ws, 10)),
                   !.average_flow_time = ts[Len(ts)]]

\* MedianWeight(self, '_median_weight', 10)
MedianWeight(e, ts, ws) ==
    IF Len(ws) = 0 \/ Len(ts) = 0 THEN e
    ELSE [e EXCEPT !.median_weight = Median(LastN(ws, 10)),
                   !.median_weight_time = ts[Len(ts)]]

\* MedianFlow(self, '_median_flow', 10, 5)
MedianFlow(e, ts, ws) ==
    IF Len(ws) < 5 \/ Len(ts) < 5 THEN e
    ELSE LET t10 == LastN(ts, 10)
             w10 == LastN(ws, 10)
             flows == [i \in 1..(Len(t10) - 4) |->
                          Flow(SubSeq(t10, i, i + 4), SubSeq(w10, i, i + 4))]
         IN [e EXCEPT !.median_flow = Median(flows),
                      !.median_flow_time = ts[Len(ts)]]

\* `for estimator in self._estimators: estimator.estimate()`
Estimate(e, ts, ws) ==
    MedianFlow(MedianWeight(AverageFlow(CurrentWeight(e, ts, ws), ts, ws), ts, ws),
               ts, ws)

\* WeightAndFlowUpdate(arrival_time=..., scale_time=..., current_weight=..., ...)
WeightAndFlowUpdate(entry, e) ==
    [arrival_time |-> entry.at, scale_time |-> entry.st, seq |-> entry.seq,
     est |-> e, oldest |-> 0, tare |-> 0]

\* The body of scale_weight_update_subscriber under the lock, up to the
\* `await ... publish(...)`: append, trim, estimate, build the event.
WeightBody(entry) ==
    /\ history_time' = PopWhileOver(Append(history_time, entry.st))
    /\ history_weight' = PopWhileOver(Append(history_weight, entry.w))
    /\ est' = Estimate(est, history_time', history_weight')
    /\ appended' = Append(appended, <<entry.st, entry.w>>)
    /\ last_event' = [WeightAndFlowUpdate(entry, est') EXCEPT
                          !.oldest = IF history_time' = << >> THEN 0
                                     ELSE history_time'[1],
                          !.tare = tare_time]
    /\ published' = published + 1

\* Callbacks that join the front of the lock's queue
Pushed(q, entry, n) == IF n = 0 THEN q ELSE <<entry>> \o q

\* n callbacks join the lock's queue in the order they were invoked
RECURSIVE Enqueued(_, _, _)
Enqueued(q, entry, n) ==
    IF n = 0 THEN q
    ELSE Enqueued(Append(q, entry), [entry EXCEPT !.seq = IF @ = 0 THEN 0 ELSE @ + 1],
                  n - 1)

\* A scale that can still deliver events to the processor on source src
Emits(s, src) == ~objs[s].decommissioned /\ Subs(objs[s], src) # {}

\* The scale publishes a ScaleWeightUpdate: every subscriber it has is invoked
\* in turn.  The first takes a free lock at once and runs up to its publish;
\* the others, and all of them when the lock is taken, wait in line.
scale_weight_update(s) ==
    /\ running = None
    /\ Started
    /\ s \in DOMAIN objs
    /\ Emits(s, "w")
    /\ now < budget.ticks
    /\ LET n == Cardinality(objs[s].w)
           first == WeightEntry(now + 1, invoked + 1)
       IN /\ Len(lock_queue) + n <= MaxQueue
          /\ invoked' = invoked + n
          /\ IF CanAcquireNow
             THEN /\ WeightBody(first)
                  /\ lock_holder' = [first EXCEPT !.run = TRUE]
                  /\ lock_queue' = Enqueued(lock_queue,
                                            [first EXCEPT !.seq = @ + 1], n - 1)
             ELSE /\ lock_queue' = Enqueued(lock_queue, first, n)
                  /\ UNCHANGED <<lock_holder, histVars, last_event, published>>
    /\ now' = now + 1
    /\ UNCHANGED <<procVars, objs, running, task, tare_time, settled, faults,
                   budget>>

\* A weight callback that waited is given the lock and runs up to its publish
weight_update_granted ==
    /\ running = None
    /\ lock_holder.kind = "weight"
    /\ ~lock_holder.run
    /\ WeightBody(lock_holder)
    /\ lock_holder' = [lock_holder EXCEPT !.run = TRUE]
    /\ UNCHANGED <<procVars, lock_queue, objs, running, task, now, invoked,
                   tare_time, settled, faults, budget>>

\* `await self._event_weight_and_flow_update.publish(...)` ends and the
\* `async with` block releases the lock
publish_done ==
    /\ running = None
    /\ lock_holder.kind = "weight"
    /\ lock_holder.run
    /\ Release
    /\ UNCHANGED <<procVars, histVars, objs, running, task, streamVars, settled,
                   faults>>

\* The scale publishes a ScaleTareSeen: every subscriber runs _reset()
scale_tare_seen(s) ==
    /\ running = None
    /\ Started
    /\ s \in DOMAIN objs
    /\ Emits(s, "t")
    /\ now < budget.ticks
    /\ LET n == Cardinality(objs[s].t) IN
       IF CanAcquireNow
       THEN /\ ResetBody
            /\ tare_time' = ScaleTime(now + 1)
            /\ UNCHANGED lockVars
       ELSE /\ Len(lock_queue) + n <= MaxQueue
            /\ lock_queue' = Enqueued(lock_queue, TareEntry(now + 1), n)
            /\ UNCHANGED <<lock_holder, histVars, tare_time>>
    /\ now' = now + 1
    /\ UNCHANGED <<procVars, objs, running, task, invoked, published, last_event,
                   settled, faults, budget>>

\* A tare callback that waited is given the lock: clear, release
tare_seen_granted ==
    /\ running = None
    /\ lock_holder.kind = "tare"
    /\ ResetBody
    /\ tare_time' = lock_holder.st
    /\ Release
    /\ UNCHANGED <<procVars, objs, running, task, now, invoked, published,
                   last_event, settled, faults, budget>>

Stream ==
    \/ \E s \in 1..MaxScales : scale_weight_update(s)
    \/ weight_update_granted
    \/ publish_done
    \/ \E s \in 1..MaxScales : scale_tare_seen(s)
    \/ tare_seen_granted

\* The estimator loop when the k-th estimator raises: the estimators before
\* it have written their targets, the exception ends the loop.
EstimateUntil(e, ts, ws, k) ==
    IF k = 1 THEN e
    ELSE IF k = 2 THEN CurrentWeight(e, ts, ws)
    ELSE IF k = 3 THEN AverageFlow(CurrentWeight(e, ts, ws), ts, ws)
    ELSE MedianWeight(AverageFlow(CurrentWeight(e, ts, ws), ts, ws), ts, ws)

\* The body of scale_weight_update_subscriber when estimator k raises: the
\* sample is in the history, nothing catches the exception, so it leaves the
\* callback through the `async with` and no event is built or published.
WeightBodyRaises(entry, k) ==
    /\ history_time' = PopWhileOver(Append(history_time, entry.st))
    /\ history_weight' = PopWhileOver(Append(history_weight, entry.w))
    /\ est' = EstimateUntil(est, history_time', history_weight', k)
    /\ appended' = Append(appended, <<entry.st, entry.w>>)
    /\ UNCHANGED <<last_event, published>>

\* A ScaleWeightUpdate whose first callback takes the free lock and has
\* estimator k raise: the lock is released at once, to the next subscriber's
\* callback if the scale has more than one.
scale_weight_update_raises(s, k) ==
    /\ running = None
    /\ Started
    /\ s \in DOMAIN objs
    /\ Emits(s, "w")
    /\ now < budget.ticks
    /\ faults < budget.faults
    /\ CanAcquireNow
    /\ LET n == Cardinality(objs[s].w)
           first == WeightEntry(now + 1, invoked + 1)
           q == Enqueued(<< >>, [first EXCEPT !.seq = @ + 1], n - 1)
       IN /\ n - 1 <= MaxQueue
          /\ invoked' = invoked + n
          /\ WeightBodyRaises(first, k)
          /\ IF q = << >>
             THEN UNCHANGED lockVars
             ELSE lock_holder' = NextHolder(q) /\ lock_queue' = RestQueue(q)
    /\ now' = now + 1
    /\ faults' = faults + 1
    /\ UNCHANGED <<procVars, objs, running, task, tare_time, settled, budget>>

\* A lock left locked by a holder that has ended: what a bare acquire()
\* without try/finally would leave behind
HeldOnRaise ==
    /\ lock_holder' = [Free EXCEPT !.kind = "ended"]
    /\ lock_queue' = lock_queue

\* `async with self._history_lock:` left by an exception: __aexit__ releases
\* the lock exactly as a normal exit does.
ReleaseOnRaise == Release

\* A weight callback that waited is given the lock and has estimator k raise
weight_update_granted_raises(k) ==
    /\ running = None
    /\ lock_holder.kind = "weight"
    /\ ~lock_holder.run
    /\ faults < budget.faults
    /\ WeightBodyRaises(lock_holder, k)
    /\ ReleaseOnRaise
    /\ faults' = faults + 1
    /\ UNCHANGED <<procVars, objs, running, task, now, invoked, tare_time,
                   settled, budget>>

\* `await self._event_weight_and_flow_update.publish(...)` raises: the
\* exception leaves the callback through the `async with`.
publish_raises ==
    /\ running = None
    /\ lock_holder.kind = "weight"
    /\ lock_holder.run
    /\ faults < budget.faults
    /\ ReleaseOnRaise
    /\ faults' = faults + 1
    /\ UNCHANGED <<procVars, histVars, objs, running, task, streamVars, settled>>

FaultyStream ==
    \/ \E s \in 1..MaxScales, k \in 1..4 : scale_weight_update_raises(s, k)
    \/ \E k \in 1..4 : weight_update_granted_raises(k)
    \/ publish_raises

\* ------------------------------------------------------------ the tasks
\* _singleton_init: `asyncio.create_task(self.set_scale(scale))` takes its
\* first step.
init_start ==
    /\ UNCHANGED faults
    /\ running = None
    /\ task["init"].pc = "pending"
    /\ running' = "init"
    /\ task' = [task EXCEPT
           !["init"] = [@ EXCEPT !.pc = "set_scale",
                                 !.quiet = ~InCall(task["api"])],
           !["api"] = [@ EXCEPT !.quiet = @ /\ ~InCall(task["api"])]]
    /\ UNCHANGED <<procVars, histVars, lockVars, objs, streamVars,
                   settled>>

\* The frame of a call the caller task starts now; `again` notes that the
\* call repeats, operation and argument, the call the task made before it.
Call(op, arg) ==
    [task["api"] EXCEPT !.pc = op, !.op = op, !.arg = arg, !.target = arg,
                        !.ret = "top", !.quiet = task["init"].pc = "done",
                        !.again = task["api"].prevOp = op
                                  /\ task["api"].prevArg = arg]

StartCall(r) ==
    /\ running = None
    /\ task["api"].pc = "idle"
    /\ task["api"].n < budget.calls
    /\ running' = "api"
    /\ task' = [task EXCEPT !["api"] = r,
                            !["init"] = [@ EXCEPT !.quiet =
                                             @ /\ ~InCall(task["init"])]]

\* A caller passes set_scale None or a Scale that already exists
api_set_scale(s) ==
    /\ UNCHANGED faults
    /\ s <= Len(objs)
    /\ IF s = NoScale THEN TRUE ELSE ~objs[s].decommissioned
    /\ StartCall(Call("set_scale", s))
    /\ UNCHANGED <<procVars, histVars, lockVars, objs, streamVars,
                   settled>>

api_change_scale_to_id(id) ==
    /\ UNCHANGED faults
    /\ IF id = NoAddr THEN TRUE ELSE Len(objs) < MaxScales
    /\ StartCall(Call("change_scale_to_id", id))
    /\ UNCHANGED <<procVars, histVars, lockVars, objs, streamVars,
                   settled>>

\* _singleton_init(scale): scale is None or a Scale the constructor was given
Constructed(initials, b) ==
    /\ scale = NoScale
    /\ scale_weight_update_id = NoneId
    /\ scale_tare_seen_id = NoneId
    /\ history_time = << >>
    /\ history_weight = << >>
    /\ appended = << >>
    /\ est = ZeroEst
    /\ lock_holder = Free
    /\ lock_queue = << >>
    /\ \E initial \in initials :
         /\ objs = IF initial = NoScale THEN << >> ELSE <<NewScale(1)>>
         /\ task = [t \in Tasks |->
                IF t = "init"
                THEN [Idle EXCEPT !.pc = "pending", !.op = "set_scale",
                                  !.arg = initial, !.target = initial]
                ELSE Idle]
    /\ faults = 0
    /\ running = None
    /\ now = 0
    /\ invoked = 0
    /\ published = 0
    /\ last_event = NoEvent
    /\ tare_time = 0
    /\ settled = TRUE
    /\ budget = b

Init == Constructed({NoScale, 1},
                    [calls |-> MaxCalls, ticks |-> MaxTicks, faults |-> MaxFaults])

Lifecycle ==
    \/ init_start
    \/ \E s \in 0..MaxScales : api_set_scale(s)
    \/ \E id \in {NoAddr} \cup Addrs : api_change_scale_to_id(id)
    \/ \E t \in Tasks :
         \/ set_scale(t)
         \/ \E src \in Sources, ok \in BOOLEAN : unsubscribe_done(t, src, ok)
         \/ set_scale_bind(t)
         \/ \E src \in Sources, ok \in BOOLEAN : subscribe_done(t, src, ok)
         \/ set_scale_reset(t)
         \/ set_scale_reset_granted(t)
    \/ \E cached \in BOOLEAN : change_scale_to_id("api", cached)
    \/ \E found \in BOOLEAN : scan_done("api", found)
    \/ change_scale_disconnect("api")
    \/ \E ok \in BOOLEAN : disconnect_done("api", ok)
    \/ \E made \in BOOLEAN : change_scale_factory("api", made)
    \/ change_scale_connect("api")
    \/ \E ok \in BOOLEAN : connect_done("api", ok)
    \/ change_scale_finally("api")
    \/ \E ok \in BOOLEAN : retire_done("api", ok)

Next == Lifecycle \/ Stream \/ FaultyStream

Spec == Init /\ [][Next]_vars

\* A processor constructed with a scale, whose callers only use set_scale,
\* fed a long stream of samples and tares by scales that do not fail.
StreamInit == Constructed({1}, [calls |-> StreamCalls, ticks |-> StreamTicks,
                                faults |-> 0])

StreamNext ==
    \/ init_start
    \/ \E s \in 0..MaxScales : api_set_scale(s)
    \/ \E t \in Tasks :
         \/ set_scale(t)
         \/ \E src \in Sources, ok \in BOOLEAN : unsubscribe_done(t, src, ok)
         \/ set_scale_bind(t)
         \/ \E src \in Sources, ok \in BOOLEAN : subscribe_done(t, src, ok)
         \/ set_scale_reset(t)
         \/ set_scale_reset_granted(t)
    \/ Stream

StreamSpec == StreamInit /\ [][StreamNext]_vars

\* ------------------------------------------------------- first_if_found
\* A first_if_found that does not look at the connection
NeverConnected == FALSE

\* `if self.scale and self.scale.is_connected:`
AlreadyConnected ==
    IF scale = NoScale THEN FALSE ELSE objs[scale].connectivity = "CONNECTED"

\* A caller awaits first_if_found(doit)
api_first_if_found(doit) ==
    /\ UNCHANGED faults
    /\ IF doit THEN Len(objs) < MaxScales ELSE TRUE
    /\ StartCall([Call("first_if_found", NoAddr) EXCEPT !.doit = doit])
    /\ UNCHANGED <<procVars, histVars, lockVars, objs, streamVars,
                   settled>>

\* first_if_found from its entry: the two "No action taken" branches return
\* self.scale_address at once, the third awaits find_first_matching.
first_if_found(t) ==
    /\ UNCHANGED faults
    /\ running = t
    /\ task[t].pc = "first_if_found"
    /\ running' = None
    /\ task' = [task EXCEPT ![t] =
           IF AlreadyConnected \/ ~task[t].doit
           THEN Ended(t, task[t], "none")
           ELSE [@ EXCEPT !.pc = "finding", !.fx = @ + 1]]
    /\ UNCHANGED <<procVars, histVars, lockVars, objs, streamVars,
                   settled>>

\* find_first_matching ends with a device (its address) or with None:
\* `if device: await self.change_scale_to_id(device.address)`, whose end is
\* the end of first_if_found.
find_done(t, address) ==
    /\ UNCHANGED faults
    /\ running = None
    /\ Started
    /\ task[t].pc = "finding"
    /\ IF address = NoAddr
       THEN /\ running' = None
            /\ task' = [task EXCEPT ![t] = Ended(t, task[t], "none")]
       ELSE /\ running' = t
            /\ task' = [task EXCEPT ![t] =
                   [@ EXCEPT !.pc = "change_scale_to_id", !.arg = address]]
    /\ UNCHANGED <<procVars, histVars, lockVars, objs, streamVars,
                   settled>>

\* A processor whose callers use all three lifecycle operations, with no
\* hardware events: the history lock is never contended.
FindInit == Constructed({NoScale, 1},
                        [calls |-> MaxCalls, ticks |-> 0, faults |-> MaxFaults])

FindNext ==
    \/ init_start
    \/ \E s \in 0..MaxScales : api_set_scale(s)
    \/ \E id \in {NoAddr} \cup Addrs : api_change_scale_to_id(id)
    \/ \E doit \in BOOLEAN : api_first_if_found(doit)
    \/ first_if_found("api")
    \/ \E address \in {NoAddr} \cup Addrs : find_done("api", address)
    \/ \E t \in Tasks :
         \/ set_scale(t)
         \/ \E src \in Sources, ok \in BOOLEAN : unsubscribe_done(t, src, ok)
         \/ set_scale_bind(t)
         \/ \E src \in Sources, ok \in BOOLEAN : subscribe_done(t, src, ok)
         \/ set_scale_reset(t)
    \/ \E cached \in BOOLEAN : change_scale_to_id("api", cached)
    \/ \E found \in BOOLEAN : scan_done("api", found)
    \/ change_scale_disconnect("api")
    \/ \E ok \in BOOLEAN : disconnect_done("api", ok)
    \/ \E made \in BOOLEAN : change_scale_factory("api", made)
    \/ change_scale_connect("api")
    \/ \E ok \in BOOLEAN : connect_done("api", ok)
    \/ change_scale_finally("api")
    \/ \E ok \in BOOLEAN : retire_done("api", ok)

FindSpec == FindInit /\ [][FindNext]_vars

\* ------------------------------------------------- the lock under faults
\* A processor constructed with a scale, whose callers only use set_scale,
\* fed samples and tares while estimators, publishes and subscriptions may
\* fail.
LockTicks == 3

LockInit == Constructed({1}, [calls |-> StreamCalls, ticks |-> LockTicks,
                              faults |-> MaxFaults])

LockNext == StreamNext \/ FaultyStream

\* What the event loop does without waiting for anything outside it: the
\* running task runs on to its next await, a woken lock waiter runs, and a
\* publish that has been awaited comes back (returning or raising).
LoopStep ==
    \/ \E t \in Tasks :
         \/ set_scale(t)
         \/ set_scale_bind(t)
         \/ set_scale_reset(t)
         \/ set_scale_reset_granted(t)
    \/ weight_update_granted
    \/ \E k \in 1..4 : weight_update_granted_raises(k)
    \/ tare_seen_granted
    \/ publish_done
    \/ publish_raises

LockSpec == LockInit /\ [][LockNext]_vars /\ WF_vars(LoopStep)

\* ================================================================ claims
\* A set_scale call of frame r has returned normally, it took the binding
\* away from a scale (r.from) that an earlier complete, unoverlapped
\* set_scale had bound, and it did not overlap another set_scale itself.
\* The call is either a task's last top-level call or the one made inside a
\* change_scale_to_id that is still running.
SwappedAway(r) ==
    IF r.pc \in {"idle", "done"}
    THEN /\ r.prevExc # "UnsubscribeError"
         /\ r.prevFrom # NoScale
         /\ r.prevFromSettled
         /\ r.prevQuiet
    ELSE /\ r.pc \in {"connect", "connecting", "finally", "retiring"}
         /\ r.exc # "UnsubscribeError"
         /\ r.from # NoScale
         /\ r.fromSettled
         /\ r.quiet

SwappedFrom(r) == IF r.pc \in {"idle", "done"} THEN r.prevFrom ELSE r.from

\* C1: once set_scale(A) has completed and then set_scale(B), B other than A
\* and possibly None, has completed, none of the subscriptions made on A's
\* weight-update and tare-seen events is still active.
C1_OldScaleUnsubscribed ==
    \A t \in Tasks :
        SwappedAway(task[t]) =>
            /\ objs[SwappedFrom(task[t])].w = {}
            /\ objs[SwappedFrom(task[t])].t = {}

\* A swap from one scale to another has completed with both unsubscribes done
C1_Witness ==
    /\ task["api"].pc = "idle"
    /\ task["api"].prevOp = "set_scale"
    /\ task["api"].prevExc = "none"
    /\ SwappedAway(task["api"])
    /\ scale # NoScale
    /\ scale # task["api"].prevFrom
    /\ objs[scale].w # {}
    /\ task["api"].prevFx = 4

\* The step by which task t's rebinding set_scale returns: its _reset() ends
SetScaleReturns(t) ==
    /\ task[t].pc \in {"reset", "lock_wait"}
    /\ task'[t].pc \notin {"reset", "lock_wait"}

C3_HistoryBounded ==
    /\ Len(history_time) = Len(history_weight)
    /\ Len(history_time) <= history_max

\* The buffer is full and older samples have been evicted
C3_Witness ==
    /\ Len(history_time) = history_max
    /\ Len(appended) > history_max
    /\ history_time[1] > ScaleTime(1)

\* C4: after each weight-update callback the history holds exactly the most
\* recent min(k, history_max) of the k samples appended since the last clear,
\* as index-aligned (time, weight) pairs in the order appended; the oldest
\* sample is the one evicted when the capacity is exceeded.
C4_HistoryIsRecentWindow ==
    LET k == Len(appended)
        m == IF k < history_max THEN k ELSE history_max
    IN /\ Len(history_time) = m
       /\ Len(history_weight) = m
       /\ \A i \in 1..m :
              <<history_time[i], history_weight[i]>> = appended[k - m + i]

\* After a clear, more than history_max samples were appended and handled
C4_Witness ==
    /\ tare_time > 0
    /\ Len(appended) > history_max
    /\ lock_holder = Free
    /\ history_time[1] = appended[2][1]

C6_AlreadyUsingIsNoOp ==
    [][\A t \in Tasks :
          (/\ running = t
           /\ task[t].pc = "change_scale_to_id"
           /\ scale_address = task[t].arg)
          => /\ UNCHANGED <<procVars, histVars, lockVars, objs>>
             /\ ~InCall(task'[t])
             /\ task'[t].prevExc = "none"
             /\ task'[t].prevFx = 0]_vars

\* change_scale_to_id(None) has returned at once, no scale being bound
C6_Witness ==
    /\ task["api"].pc = "idle"
    /\ task["api"].prevOp = "change_scale_to_id"
    /\ task["api"].prevArg = NoAddr
    /\ task["api"].prevFx = 0
    /\ task["api"].prevExc = "none"
    /\ scale = NoScale
    /\ task["init"].pc = "done"

C8_NullSafeStatus ==
    IF scale = NoScale
    THEN /\ scale_connectivity = "NOT_CONNECTED"
         /\ scale_address = NoAddr
         /\ scale_name = NoAddr
         /\ scale_type = NoAddr
    ELSE /\ scale \in DOMAIN objs
         /\ scale_connectivity = objs[scale].connectivity
         /\ scale_connectivity \in {"CONNECTED", "NOT_CONNECTED"}
         /\ scale_address = objs[scale].address
         /\ scale_address \in Addrs
         /\ scale_name = NameOf(scale_address)
         /\ scale_type = TypeOf(scale_address)

\* No scale is bound while a scale that was bound before is still connected
C8_Witness ==
    /\ scale = NoScale
    /\ task["api"].n > 0
    /\ \E i \in DOMAIN objs : objs[i].connectivity = "CONNECTED"

\* A weight callback has appended, trimmed and estimated and is awaiting
\* the end of its publish, the lock still held
Publishing == lock_holder.kind = "weight" /\ lock_holder.run

\* C9: a weight callback's append, trim, estimate and publish are atomic
\* with respect to every other weight callback, tare callback and set_scale
\* reset: from its append to the end of its publish nothing else appends to
\* or clears the history, or writes the estimates.
C9_UpdateAtomic ==
    [][Publishing =>
          /\ UNCHANGED <<history_time, history_weight, est>>
          /\ lock_holder' # lock_holder => ~Publishing']_vars

\* A callback is publishing while a hardware callback and a set_scale reset
\* wait for the lock
C9_Witness ==
    /\ Publishing
    /\ history_time # << >>
    /\ \E i \in DOMAIN lock_queue : lock_queue[i].kind = "reset"
    /\ \E i \in DOMAIN lock_queue : lock_queue[i].kind \in {"weight", "tare"}

IsWeight(e) == e.kind = "weight"

\* The weight callbacks invoked and not yet run, in the order they will run
WaitingWeights ==
    (IF IsWeight(lock_holder) /\ ~lock_holder.run THEN <<lock_holder>> ELSE << >>)
        \o SelectSeq(lock_queue, IsWeight)

\* C10: weight samples are appended, estimated and published in the order
\* their callbacks were invoked, one WeightAndFlowUpdate per handled sample:
\* the k-th published event carries the arrival_time and scale_time of the
\* sample of the k-th invoked callback, also when callbacks wait on the lock.
C10_PublishedInInvocationOrder ==
    /\ [](/\ last_event.seq = published
          /\ Len(WaitingWeights) = invoked - published
          /\ \A i \in DOMAIN WaitingWeights :
                 WaitingWeights[i].seq = published + i)
    /\ [][published' # published =>
             /\ published' = published + 1
             /\ IF WaitingWeights # << >>
                THEN /\ last_event'.scale_time = WaitingWeights[1].st
                     /\ last_event'.arrival_time = WaitingWeights[1].at
                ELSE /\ last_event'.scale_time = ScaleTime(now')
                     /\ last_event'.arrival_time = ArrivalTime(now')]_vars

\* One callback is publishing, not the first, and two more wait their turn
C10_Witness ==
    /\ Publishing
    /\ published >= 2
    /\ Len(WaitingWeights) = 2
    /\ Len(lock_queue) = 2

\* No lifecycle call is in progress and the caller's last call, if any, ran
\* alone: construction's task had finished before it started.
AtRest ==
    /\ running = None
    /\ task["init"].pc = "done"
    /\ task["api"].pc = "idle"
    /\ task["api"].prevQuiet

\* Unbound with no subscription anywhere, or bound to one scale that holds
\* exactly the two subscriptions whose ids the processor stores
FullySubscribedOrUnbound ==
    /\ \A i \in DOMAIN objs : i # scale => objs[i].w = {} /\ objs[i].t = {}
    /\ scale # NoScale =>
          /\ scale_weight_update_id > NoneId
          /\ scale_tare_seen_id > NoneId
          /\ objs[scale].w = {scale_weight_update_id}
          /\ objs[scale].t = {scale_tare_seen_id}

\* C11: whatever way a set_scale or change_scale_to_id call ends, it leaves
\* the processor unbound with no active subscription, or bound to exactly one
\* scale with both subscriptions active and their valid ids stored.
C11_NeverPartiallySubscribed == AtRest => FullySubscribedOrUnbound

\* The step by which task t's change_scale_to_id returns or raises
ChangeEnds(t) ==
    /\ task[t].op = "change_scale_to_id"
    /\ InCall(task[t])
    /\ ~InCall(task'[t])

\* C12: whenever change_scale_to_id ends with the binding different from the
\* scale bound when the call started, that previous scale has been
\* disconnected and then decommissioned before the call returns or raises.
\* Stated for the calls that overlap no other lifecycle call.
C12_PreviousScaleRetired ==
    [][\A t \in Tasks :
          (/\ ChangeEnds(t)
           /\ task[t].quiet
           /\ task[t].old # NoScale
           /\ scale' # task[t].old)
          => /\ objs'[task[t].old].disconnected
             /\ objs'[task[t].old].decommissioned]_vars

InSetScale(r) ==
    r.pc \in {"set_scale", "unsubscribing", "bind", "subscribing", "reset",
              "lock_wait"}

\* What the step that ends a set_scale raised, "none" for a normal return
Raised(t) == IF task[t].ret = "top" THEN task'[t].prevExc ELSE task'[t].exc

\* C13: set_scale tolerates a failure of either unsubscribe on the old scale
\* and of either subscribe on the new one: it does not raise, the processor
\* is rebound to the new scale and the history is reset.  Stated for the
\* calls that overlap no other lifecycle call.
C13_FailuresTolerated ==
    [][\A t \in Tasks :
          (/\ task[t].quiet
           /\ task[t].pc \in {"unsubscribing", "subscribing", "reset", "lock_wait"}
           /\ ~InSetScale(task'[t]))
          => /\ Raised(t) = "none"
             /\ scale' = task[t].target
             /\ history_time' = << >>
             /\ history_weight' = << >>]_vars

\* The step in which a weight callback appends its sample
HandlesSample == Len(appended') = Len(appended) + 1

\* C14: when one estimator raises during the pass of a weight sample, the
\* other estimators still run and the WeightAndFlowUpdate of that sample is
\* still published: every pass publishes one event carrying the sample's time,
\* and of CurrentWeight and MedianWeight, which never skip, at most the one
\* that raised has not written that time.
C14_EstimatorFailureContained ==
    [][HandlesSample =>
          LET st == appended'[Len(appended')][1] IN
          /\ published' = published + 1
          /\ last_event'.scale_time = st
          /\ \/ est'.current_weight_time = st
             \/ est'.median_weight_time = st]_vars

\* C15: when change_scale_to_id(id) finds the device neither in the cache of
\* discovered devices nor by the address scan, it fails with
\* DE1NoAddressError and leaves the processor as it was: the scale bound at
\* the start is still bound (construction's own set_scale aside, when the
\* call overlaps it), and the call has made no external call beyond the
\* lookup and the scan: no disconnect, connect, decommission, subscribe or
\* unsubscribe.
C15_NotFoundChangesNothing ==
    [][\A t \in Tasks :
          (/\ task[t].pc = "finally"
           /\ task[t].exc = "DE1NoAddressError"
           /\ task'[t] # task[t])
          => /\ UNCHANGED <<procVars, histVars, objs>>
             /\ task[t].quiet => scale' = task[t].old
             /\ ~InCall(task'[t])
             /\ task'[t].prevExc = "DE1NoAddressError"
             /\ task'[t].prevFx = 2]_vars

\* C16: first_if_found makes no discovery scan and no change_scale_to_id
\* call and leaves the binding as it is when a scale is already connected or
\* its argument is false; otherwise it scans and, if a device is found, calls
\* change_scale_to_id with that device's address, and with no device found
\* it changes nothing.
C16_FirstIfFoundGuards ==
    [][\A t \in Tasks :
          /\ (running = t /\ task[t].pc = "first_if_found") =>
                IF (scale # NoScale /\ scale_connectivity = "CONNECTED")
                   \/ ~task[t].doit
                THEN /\ UNCHANGED <<procVars, histVars, objs>>
                     /\ ~InCall(task'[t])
                     /\ task'[t].prevFx = 0
                ELSE /\ task'[t].pc = "finding"
                     /\ task'[t].fx = 1
                     /\ UNCHANGED <<procVars, histVars, objs>>
          /\ (task[t].pc = "finding" /\ task'[t] # task[t]) =>
                /\ UNCHANGED <<procVars, histVars, objs>>
                /\ \/ ~InCall(task'[t]) /\ task'[t].prevFx = 1
                   \/ /\ task'[t].pc = "change_scale_to_id"
                      /\ task'[t].arg \in Addrs]_vars

\* first_if_found(True) has returned without scanning, the bound scale
\* being connected
C16_Witness ==
    /\ task["api"].pc = "idle"
    /\ task["api"].prevOp = "first_if_found"
    /\ task["api"].prevDoit
    /\ task["api"].prevFx = 0
    /\ scale # NoScale
    /\ objs[scale].connectivity = "CONNECTED"
    /\ task["api"].n = 2

\* No lifecycle call is in progress and no external call has failed so far
IdleNoFault ==
    /\ running = None
    /\ task["init"].pc = "done"
    /\ task["api"].pc = "idle"
    /\ faults = 0

\* C17: under any interleaving of set_scale and change_scale_to_id calls,
\* overlapping ones included, the processor holds at most one active
\* subscription per event source, every subscription it made is on the bound
\* scale, and the stored ids are those subscriptions'.  Stated for the states
\* between calls of runs in which nothing has failed.
C17_OneSubscriptionPerSource ==
    IdleNoFault =>
        /\ \A i \in DOMAIN objs : i # scale => objs[i].w = {} /\ objs[i].t = {}
        /\ scale # NoScale =>
              /\ objs[scale].w \subseteq {scale_weight_update_id}
              /\ objs[scale].t \subseteq {scale_tare_seen_id}

\* C18: a scale is decommissioned only after the processor has unsubscribed
\* both of its event sources and its disconnect has completed: no reachable
\* state has a decommissioned scale that is the bound scale, that still has
\* a subscription of the processor, or that was never disconnected.
C18_DecommissionedIsDetached ==
    \A i \in DOMAIN objs :
        objs[i].decommissioned =>
            /\ i # scale
            /\ objs[i].w = {}
            /\ objs[i].t = {}
            /\ objs[i].disconnected

\* C19: when a change_scale_to_id(id) call has failed at one of its
\* suspension points, a following change_scale_to_id(id) with the same id
\* whose sub-operations all succeed ends with the scale for id bound and
\* connected.  Stated for calls that overlap no other lifecycle call.
C19_RetryConnects ==
    [][(/\ ChangeEnds("api")
        /\ task["api"].arg # NoAddr
        /\ task["api"].again
        /\ task["api"].prevExc # "none"
        /\ task["api"].prevQuiet
        /\ task["api"].quiet
        /\ task'["api"].prevExc = "none")
       => /\ scale' # NoScale
          /\ objs'[scale'].address = task["api"].arg
          /\ objs'[scale'].connectivity = "CONNECTED"]_vars

\* C20: the set_scale(initial) task that construction starts never undoes a
\* later binding: whatever the interleaving with a first change_scale_to_id
\* call, the call connects the scale it constructed, and once both are over
\* that scale is the bound one.  Stated for runs in which nothing fails.
C20_ConstructionKeepsLaterBinding ==
    faults = 0 =>
        /\ (running = "api" /\ task["api"].pc = "connect")
              => scale = task["api"].target
        /\ (/\ task["init"].pc = "done"
            /\ task["api"].pc = "idle"
            /\ task["api"].n = 1
            /\ task["api"].prevOp = "change_scale_to_id"
            /\ task["api"].prevArg # NoAddr
            /\ task["api"].prevExc = "none")
              => scale_address = task["api"].prevArg

\* ---------------------------------------------------------------- C21
\* The lock entries a run of LockSpec can create
LockEntries ==
    {WeightEntry(k, n) : k \in 1..LockTicks, n \in 1..(2 * LockTicks)}
        \cup {TareEntry(k) : k \in 1..LockTicks}
        \cup {ResetEntry(t) : t \in Tasks}

Waits(e) == \E i \in 1..Len(lock_queue) : lock_queue[i] = e

Holds(e) == [lock_holder EXCEPT !.run = FALSE] = e

\* C21: the history lock is always released, also when an estimator or the
\* publish raises: whoever holds the lock gives it up, and every tare reset,
\* set_scale reset and weight callback waiting on it eventually owns it.
C21_LockAlwaysReleased ==
    /\ \A e \in LockEntries : Waits(e) ~> Holds(e)
    /\ (lock_holder.kind # "free") ~> (lock_holder.kind = "free")

\* A callback raised while others waited, and a waiter was handed the lock
C21_Witness ==
    /\ faults = 1
    /\ appended # << >>
    /\ appended[Len(appended)][1] # last_event.scale_time
    /\ lock_holder.kind \in {"tare", "reset"}

====
